---- MODULE Spec2Model ----
(***************************************************************************)
(* Model of the "books" CRUD tutorial services and the /search demo.       *)
(*                                                                         *)
(*   app = "memory"     production_ready_structure/src/books/routes.py     *)
(*                      (handlers over the global list `books`)            *)
(*   app = "persisted"  04_database_sqlmodel/src/books/routes.py           *)
(*                      (handlers over the table `book`)                   *)
(*   app = "search"     01_Creating a Simple Web Server/02_query_param.py  *)
(*                                                                         *)
(* Spec     : one application, requests handled one at a time.             *)
(* SpecConc : the in-memory application with create_book running on        *)
(*            several threadpool threads (the handlers are plain `def`).   *)
(***************************************************************************)
EXTENDS Integers, Sequences, FiniteSets

VARIABLES app,        \* which of the applications this process is
          books,      \* in-memory variant: the global list of dicts
          table,      \* persisted variant: primary key -> row
          user_list,  \* search demo: the global list of names
          last,       \* the last request served and its response
          created,    \* ids returned by the creates so far (reset by a delete)
          deleted,    \* a delete has succeeded in this run
          assigned,   \* every id a create has returned in this run
          pc,         \* per thread: position inside create_book
          new_id,     \* per thread: local new_id
          pending,    \* per thread: the request body being created
          scanned     \* per thread: number of records max() iterated over

vars == <<app, books, table, user_list, last, created, deleted, assigned,
          pc, new_id, pending, scanned>>

(* ------------------------------ bounds --------------------------------- *)
MaxBooks == 3
MaxId == 4
NumThreads == 2

Versions == {1, 2}
BookIds == 0..MaxId
Threads == 1..NumThreads

(* ------------------------------ values --------------------------------- *)
NoBody == [none |-> TRUE]
NotFoundBody == [detail |-> "Book not found"]
UpdatableFields == {"title", "author", "publisher", "page_count", "language"}
SubmittedFields == UpdatableFields \cup {"published_date"}

BookCreate(v, d) ==
    [title |-> <<"title", v>>, author |-> <<"author", v>>,
     publisher |-> <<"publisher", v>>, published_date |-> <<"date", d>>,
     page_count |-> 100 * v, language |-> <<"language", v>>]

BookUpdate(v) ==
    [title |-> <<"title", v>>, author |-> <<"author", v>>,
     publisher |-> <<"publisher", v>>,
     page_count |-> 100 * v, language |-> <<"language", v>>]

MemBookCreate(v, d) == BookCreate(v, d)

MemBookUpdate(v) == BookUpdate(v)

book_data == << >>

Usernames == {"Jerry", "Joey", "Phil", "Bob", "jerry", ""}

(* --------------------------- pure helpers ------------------------------ *)
\* variant of dict_update in which the keys already present win
dict_update_keep(d, other) ==
    [k \in (DOMAIN d) \cup (DOMAIN other) |->
        IF k \in DOMAIN d THEN d[k] ELSE other[k]]

\* dict.update / {**a, **b}: keys of `other` win
dict_update(d, other) ==
    [k \in (DOMAIN d) \cup (DOMAIN other) |->
        IF k \in DOMAIN other THEN other[k] ELSE d[k]]

Ids(bks) == {bks[i]["id"] : i \in 1..Len(bks)}

HasId(bks, book_id) == \E i \in 1..Len(bks) : bks[i]["id"] = book_id

UniqueIds(bks) ==
    \A i, j \in 1..Len(bks) : bks[i]["id"] = bks[j]["id"] => i = j

\* index of the first record the `for book in books` scan matches, 0 if none
FirstMatch(bks, book_id) ==
    IF HasId(bks, book_id)
    THEN CHOOSE i \in 1..Len(bks) :
            /\ bks[i]["id"] = book_id
            /\ \A j \in 1..(i - 1) : bks[j]["id"] # book_id
    ELSE 0

RECURSIVE MaxOf(_)
MaxOf(bks) ==
    IF Len(bks) = 1 THEN bks[1]["id"]
    ELSE LET m == MaxOf(Tail(bks))
         IN IF bks[1]["id"] > m THEN bks[1]["id"] ELSE m

\* variant of ListRemove that drops the last element (list.pop())
ListRemoveLast(bks, x) == SubSeq(bks, 1, Len(bks) - 1)

\* list.remove(x): drops the first element equal to x
ListRemove(bks, x) ==
    LET i == CHOOSE k \in 1..Len(bks) :
                /\ bks[k] = x
                /\ \A j \in 1..(k - 1) : bks[j] # x
    IN [k \in 1..(Len(bks) - 1) |-> IF k < i THEN bks[k] ELSE bks[k + 1]]

(* ------------------- in-memory variant: the handlers ------------------- *)
\* routes.py:13  return books
get_all_books(bks) == [books |-> bks, status |-> 200, body |-> [items |-> bks]]

\* variants of NextId: the record count, and the first record's id
NextIdLen(bks) == Len(bks) + 1

NextIdFirst(bks) == IF bks # << >> THEN bks[1]["id"] + 1 ELSE 1

\* routes.py:18  max(book["id"] for book in books) + 1 if books else 1
NextId(bks) == IF bks # << >> THEN MaxOf(bks) + 1 ELSE 1

\* routes.py:20-23  {"id": new_id, **book.model_dump()}
new_book(id, book) == dict_update([id |-> id], book)

\* variants of append_book: insert at the front; skip an id already present
append_book_front(bks, nb) == <<nb>> \o bks

append_book_guarded(bks, nb) == IF HasId(bks, nb["id"]) THEN bks ELSE Append(bks, nb)

\* routes.py:25  books.append(new_book)
append_book(bks, nb) == Append(bks, nb)

create_book(bks, book) ==
    LET nb == new_book(NextId(bks), book)
    IN [books |-> append_book(bks, nb), status |-> 201, body |-> nb]

\* variant of get_book that takes book_id for a position in the list
get_book_by_index(bks, book_id) ==
    IF book_id \in 1..Len(bks)
    THEN [books |-> bks, status |-> 200, body |-> bks[book_id]]
    ELSE [books |-> bks, status |-> 404, body |-> NotFoundBody]

get_book(bks, book_id) ==
    LET i == FirstMatch(bks, book_id)
    IN IF i # 0
       THEN [books |-> bks, status |-> 200, body |-> bks[i]]
       ELSE [books |-> bks, status |-> 404, body |-> NotFoundBody]

\* variant of update_book that updates every record the scan passes
update_book_eager(bks, book_id, data) ==
    LET i == FirstMatch(bks, book_id)
        n == IF i # 0 THEN i ELSE Len(bks)
        upd == [j \in 1..Len(bks) |->
                   IF j <= n THEN dict_update(bks[j], data) ELSE bks[j]]
    IN IF i # 0
       THEN [books |-> upd, status |-> 200, body |-> upd[i]]
       ELSE [books |-> upd, status |-> 404, body |-> NotFoundBody]

update_book(bks, book_id, data) ==
    LET i == FirstMatch(bks, book_id)
    IN IF i # 0
       THEN LET nb == dict_update(bks[i], data)
            IN [books |-> [bks EXCEPT ![i] = nb], status |-> 200, body |-> nb]
       ELSE [books |-> bks, status |-> 404, body |-> NotFoundBody]

\* variant of delete_book that drops the match and everything after it
delete_book_truncate(bks, book_id) ==
    LET i == FirstMatch(bks, book_id)
    IN IF i # 0
       THEN [books |-> SubSeq(bks, 1, i - 1), status |-> 204, body |-> NoBody]
       ELSE [books |-> bks, status |-> 404, body |-> NotFoundBody]

delete_book(bks, book_id) ==
    LET i == FirstMatch(bks, book_id)
    IN IF i # 0
       THEN [books |-> ListRemove(bks, bks[i]), status |-> 204, body |-> NoBody]
       ELSE [books |-> bks, status |-> 404, body |-> NotFoundBody]

(* ------------------- persisted variant: the handlers ------------------- *)
\* session.get(Book, book_id): the row with that primary key, or None
session_get(tbl, book_id) == IF book_id \in DOMAIN tbl THEN tbl[book_id] ELSE NoBody

\* session.add + commit of a row, inserted or updated under its primary key
session_commit(tbl, row) ==
    [k \in (DOMAIN tbl) \cup {row["id"]} |-> IF k = row["id"] THEN row ELSE tbl[k]]

\* session.delete + commit
session_delete(tbl, row) == [k \in (DOMAIN tbl) \ {row["id"]} |-> tbl[k]]

\* Book.from_orm(book), with the primary key the engine gave on commit
db_create_book(tbl, book, pk) ==
    LET db_book == dict_update([id |-> pk], book)
        t2 == session_commit(tbl, db_book)
    IN [table |-> t2, status |-> 200, body |-> session_get(t2, pk)]

db_get_books(tbl) ==
    [table |-> tbl, status |-> 200, body |-> [items |-> {tbl[k] : k \in DOMAIN tbl}]]

db_get_book(tbl, book_id) ==
    LET book == session_get(tbl, book_id)
    IN IF book = NoBody
       THEN [table |-> tbl, status |-> 404, body |-> NotFoundBody]
       ELSE [table |-> tbl, status |-> 200, body |-> book]

db_update_book(tbl, book_id, data) ==
    LET book == session_get(tbl, book_id)
    IN IF book = NoBody
       THEN [table |-> tbl, status |-> 404, body |-> NotFoundBody]
       ELSE LET t2 == session_commit(tbl, dict_update(book, data))
            IN [table |-> t2, status |-> 200, body |-> session_get(t2, book_id)]

db_delete_book(tbl, book_id) ==
    LET book == session_get(tbl, book_id)
    IN IF book = NoBody
       THEN [table |-> tbl, status |-> 404, body |-> NotFoundBody]
       ELSE [table |-> session_delete(tbl, book), status |-> 200,
             body |-> [message |-> "Book deleted"]]

(* ----------------------------- search demo ----------------------------- *)
\* variant of InList that stops one element early
InListOffByOne(lst, x) == \E i \in 1..(Len(lst) - 1) : lst[i] = x

InList(lst, x) == \E i \in 1..Len(lst) : lst[i] = x

\* f"Details for user {username}" is the literal followed by the username
search_for_user(lst, username) ==
    IF InList(lst, username)
    THEN [status |-> 200, body |-> [message |-> <<"Details for user ", username>>]]
    ELSE [status |-> 404, body |-> [detail |-> "User Not Found"]]

(* ------------------------------ initial state -------------------------- *)
NoRequest == [op |-> "none", arg |-> 0, req |-> NoBody, status |-> 0, body |-> NoBody]

IdleThreads ==
    /\ pc = [t \in Threads |-> "idle"]
    /\ new_id = [t \in Threads |-> 0]
    /\ pending = [t \in Threads |-> NoBody]
    /\ scanned = [t \in Threads |-> 0]

Init ==
    /\ app \in {"memory", "persisted", "search"}
    /\ books = book_data
    /\ table = << >>
    /\ user_list = <<"Jerry", "Joey", "Phil">>
    /\ last = NoRequest
    /\ created = << >>
    /\ deleted = FALSE
    /\ assigned = {}
    /\ IdleThreads

threadVars == <<pc, new_id, pending, scanned>>
logVars == <<created, deleted, assigned>>

(* ------------------- in-memory variant: the requests ------------------- *)
GetAllBooks ==
    /\ app = "memory"
    /\ LET r == get_all_books(books)
       IN /\ books' = r.books
          /\ last' = [op |-> "list", arg |-> 0, req |-> NoBody,
                      status |-> r.status, body |-> r.body]
    /\ UNCHANGED <<app, table, user_list, logVars, threadVars>>

CreateBook ==
    /\ app = "memory"
    /\ Len(books) < MaxBooks
    /\ NextId(books) <= MaxId
    /\ \E v \in Versions, d \in Versions :
         LET r == create_book(books, MemBookCreate(v, d))
         IN /\ books' = r.books
            /\ last' = [op |-> "create", arg |-> 0, req |-> MemBookCreate(v, d),
                        status |-> r.status, body |-> r.body]
            /\ created' = IF deleted THEN created ELSE Append(created, r.body["id"])
            /\ assigned' = assigned \cup {r.body["id"]}
    /\ UNCHANGED <<app, table, user_list, deleted, threadVars>>

GetBook ==
    /\ app = "memory"
    /\ \E k \in BookIds :
         LET r == get_book(books, k)
         IN /\ books' = r.books
            /\ last' = [op |-> "get", arg |-> k, req |-> NoBody,
                        status |-> r.status, body |-> r.body]
    /\ UNCHANGED <<app, table, user_list, logVars, threadVars>>

UpdateBook ==
    /\ app = "memory"
    /\ \E k \in BookIds, v \in Versions :
         LET r == update_book(books, k, MemBookUpdate(v))
         IN /\ books' = r.books
            /\ last' = [op |-> "update", arg |-> k, req |-> MemBookUpdate(v),
                        status |-> r.status, body |-> r.body]
    /\ UNCHANGED <<app, table, user_list, logVars, threadVars>>

DeleteBook ==
    /\ app = "memory"
    /\ \E k \in BookIds :
         LET r == delete_book(books, k)
         IN /\ books' = r.books
            /\ last' = [op |-> "delete", arg |-> k, req |-> NoBody,
                        status |-> r.status, body |-> r.body]
            /\ deleted' = (deleted \/ r.status = 204)
            /\ created' = IF r.status = 204 THEN << >> ELSE created
    /\ UNCHANGED <<app, table, user_list, assigned, threadVars>>

(* ------------------- persisted variant: the requests ------------------- *)
DbCreateBook ==
    /\ app = "persisted"
    /\ Cardinality(DOMAIN table) < MaxBooks
    /\ \E v \in Versions, d \in Versions, pk \in (1..MaxId) \ DOMAIN table :
         LET r == db_create_book(table, BookCreate(v, d), pk)
         IN /\ table' = r.table
            /\ last' = [op |-> "create", arg |-> 0, req |-> BookCreate(v, d),
                        status |-> r.status, body |-> r.body]
    /\ UNCHANGED <<app, books, user_list, logVars, threadVars>>

DbGetBooks ==
    /\ app = "persisted"
    /\ LET r == db_get_books(table)
       IN /\ table' = r.table
          /\ last' = [op |-> "list", arg |-> 0, req |-> NoBody,
                      status |-> r.status, body |-> r.body]
    /\ UNCHANGED <<app, books, user_list, logVars, threadVars>>

DbGetBook ==
    /\ app = "persisted"
    /\ \E k \in BookIds :
         LET r == db_get_book(table, k)
         IN /\ table' = r.table
            /\ last' = [op |-> "get", arg |-> k, req |-> NoBody,
                        status |-> r.status, body |-> r.body]
    /\ UNCHANGED <<app, books, user_list, logVars, threadVars>>

DbUpdateBook ==
    /\ app = "persisted"
    /\ \E k \in BookIds, v \in Versions :
         LET r == db_update_book(table, k, BookUpdate(v))
         IN /\ table' = r.table
            /\ last' = [op |-> "update", arg |-> k, req |-> BookUpdate(v),
                        status |-> r.status, body |-> r.body]
    /\ UNCHANGED <<app, books, user_list, logVars, threadVars>>

DbDeleteBook ==
    /\ app = "persisted"
    /\ \E k \in BookIds :
         LET r == db_delete_book(table, k)
         IN /\ table' = r.table
            /\ last' = [op |-> "delete", arg |-> k, req |-> NoBody,
                        status |-> r.status, body |-> r.body]
    /\ UNCHANGED <<app, books, user_list, logVars, threadVars>>

(* ----------------------------- search demo ----------------------------- *)
Search ==
    /\ app = "search"
    /\ \E u \in Usernames :
         LET r == search_for_user(user_list, u)
         IN last' = [op |-> "search", arg |-> 0, req |-> [username |-> u],
                     status |-> r.status, body |-> r.body]
    /\ UNCHANGED <<app, books, table, user_list, logVars, threadVars>>

Next ==
    \/ GetAllBooks
    \/ CreateBook
    \/ GetBook
    \/ UpdateBook
    \/ DeleteBook
    \/ DbCreateBook
    \/ DbGetBooks
    \/ DbGetBook
    \/ DbUpdateBook
    \/ DbDeleteBook
    \/ Search

Spec == Init /\ [][Next]_vars

(* ------------- in-memory variant: create_book on threads --------------- *)
\* The handlers are plain `def`, so the framework runs each request on a
\* threadpool thread; a thread can be preempted between any two lines.
InFlight == {t \in Threads : pc[t] # "idle"}

\* routes.py:18  the scan for the maximum, result kept in the local new_id
ComputeId(t) ==
    /\ pc[t] = "idle"
    /\ Len(books) + Cardinality(InFlight) < MaxBooks
    /\ \E v \in Versions, d \in Versions :
         pending' = [pending EXCEPT ![t] = MemBookCreate(v, d)]
    /\ new_id' = [new_id EXCEPT ![t] = NextId(books)]
    /\ scanned' = [scanned EXCEPT ![t] = Len(books)]
    /\ pc' = [pc EXCEPT ![t] = "computed"]
    /\ UNCHANGED <<app, books, table, user_list, last, logVars>>

\* routes.py:20-25  build the dict and append it
AppendBook(t) ==
    /\ pc[t] = "computed"
    /\ books' = append_book(books, new_book(new_id[t], pending[t]))
    /\ pc' = [pc EXCEPT ![t] = "appended"]
    /\ UNCHANGED <<app, table, user_list, last, logVars, new_id, pending, scanned>>

\* routes.py:26  return new_book
ReturnBook(t) ==
    /\ pc[t] = "appended"
    /\ last' = [op |-> "create", arg |-> 0, req |-> pending[t], status |-> 201,
                body |-> new_book(new_id[t], pending[t])]
    /\ pc' = [pc EXCEPT ![t] = "idle"]
    /\ new_id' = [new_id EXCEPT ![t] = 0]
    /\ pending' = [pending EXCEPT ![t] = NoBody]
    /\ scanned' = [scanned EXCEPT ![t] = 0]
    /\ UNCHANGED <<app, books, table, user_list, logVars>>

InitConc ==
    /\ app = "memory"
    /\ books = book_data
    /\ table = << >>
    /\ user_list = <<"Jerry", "Joey", "Phil">>
    /\ last = NoRequest
    /\ created = << >>
    /\ deleted = FALSE
    /\ assigned = {}
    /\ IdleThreads

NextConc ==
    \/ \E t \in Threads : ComputeId(t)
    \/ \E t \in Threads : AppendBook(t)
    \/ \E t \in Threads : ReturnBook(t)

SpecConc == InitConc /\ [][NextConc]_vars

(* ============================ properties =============================== *)
\* the step just taken served a request of this kind in the in-memory variant
MemStep(op) == app = "memory" /\ last'.op = op
DbStep(op) == app = "persisted" /\ last'.op = op
MemCreateStep == MemStep("create") /\ Len(books') = Len(books) + 1

\* C1: in the in-memory service a create returns id = (maximum id present
\* before the create) + 1, or 1 on an empty collection, and a get on that id
\* right after it yields the record with the six submitted fields unchanged.
C1_CreateThenGet ==
    [][/\ MemCreateStep =>
            LET id == last'.body["id"]
                g == get_book(books', id)
            IN /\ IF books = << >>
                  THEN id = 1
                  ELSE /\ \E i \in 1..Len(books) : books[i]["id"] = id - 1
                       /\ \A i \in 1..Len(books) : books[i]["id"] <= id - 1
               /\ g.status = 200
               /\ g.body["id"] = id
               /\ \A f \in SubmittedFields : g.body[f] = last'.req[f]
       /\ (app = "memory" /\ last.op = "create" /\ last'.op = "get"
             /\ last'.arg = last.body["id"]) =>
            /\ last'.status = 200
            /\ last'.body["id"] = last.body["id"]
            /\ \A f \in SubmittedFields : last'.body[f] = last.req[f]
      ]_vars

\* a get has just returned the book a create put behind a gap left by a delete
C1_Witness ==
    /\ app = "memory" /\ deleted
    /\ last.op = "get" /\ last.status = 200
    /\ Len(books) = 2 /\ books[1]["id"] = 2
    /\ last.arg = 3 /\ last.body = books[2]

\* C2: with requests served one at a time from an empty collection, no two
\* books of the collection have the same id, in every reachable state.
C2_UniqueIds == UniqueIds(books)

\* several books are present after creates, a delete and an update
C2_Witness ==
    /\ app = "memory" /\ deleted /\ Len(books) >= 2
    /\ last.op = "update" /\ last.status = 200

\* C3: an update on an id that exists replaces title, author, publisher,
\* page count and language by the submitted values, leaves id and published
\* date as they were, and returns the updated record (both variants).
C3_UpdateKeepsIdAndDate ==
    [][/\ (MemStep("update") /\ HasId(books, last'.arg)) =>
            \E i \in 1..Len(books) :
               /\ books[i]["id"] = last'.arg
               /\ Len(books') = Len(books)
               /\ \A f \in UpdatableFields : books'[i][f] = last'.req[f]
               /\ books'[i]["id"] = books[i]["id"]
               /\ books'[i]["published_date"] = books[i]["published_date"]
               /\ last'.status = 200
               /\ last'.body = books'[i]
       /\ (DbStep("update") /\ last'.arg \in DOMAIN table) =>
            LET k == last'.arg
            IN /\ k \in DOMAIN table'
               /\ \A f \in UpdatableFields : table'[k][f] = last'.req[f]
               /\ table'[k]["id"] = table[k]["id"]
               /\ table'[k]["published_date"] = table[k]["published_date"]
               /\ last'.status = 200
               /\ last'.body = table'[k]
      ]_vars

\* a persisted book was updated to values that differ from its published date's
C3_Witness ==
    /\ app = "persisted"
    /\ last.op = "update" /\ last.status = 200
    /\ last.body = table[last.arg]
    /\ last.body["title"] = <<"title", 2>>
    /\ last.body["published_date"] = <<"date", 1>>

\* C4: a delete on an id that exists removes it, so that a get on the same id
\* right afterwards returns 404; a delete on an id that is absent returns 404
\* (both variants).
C4_DeleteThenGet ==
    [][/\ MemStep("delete") =>
            IF HasId(books, last'.arg)
            THEN /\ last'.status = 204
                 /\ ~HasId(books', last'.arg)
                 /\ get_book(books', last'.arg).status = 404
            ELSE last'.status = 404
       /\ DbStep("delete") =>
            IF last'.arg \in DOMAIN table
            THEN /\ last'.status = 200
                 /\ last'.arg \notin DOMAIN table'
                 /\ db_get_book(table', last'.arg).status = 404
            ELSE last'.status = 404
       /\ (last.op = "delete" /\ last.status # 404 /\ last'.op = "get"
             /\ last'.arg = last.arg) => last'.status = 404
      ]_vars

\* a get has just failed on an id that a create had assigned and a delete removed
C4_Witness ==
    /\ app = "memory" /\ deleted
    /\ last.op = "get" /\ last.status = 404
    /\ last.arg \in assigned /\ ~HasId(books, last.arg)
    /\ Len(books) >= 1

\* C5: starting from the empty collection, after N creates and no delete,
\* list returns exactly N records in the order in which they were created.
C5_ListInCreationOrder ==
    (app = "memory" /\ ~deleted) =>
        LET r == get_all_books(books)
        IN /\ r.status = 200
           /\ Len(r.body.items) = Len(created)
           /\ \A i \in 1..Len(created) : r.body.items[i]["id"] = created[i]
           /\ last.op = "list" => last.body = r.body

\* list has just returned a full collection built by creates alone
C5_Witness ==
    /\ app = "memory" /\ ~deleted
    /\ last.op = "list" /\ Len(last.body.items) = MaxBooks
    /\ Len(created) = MaxBooks

C7_SearchExact ==
    last.op = "search" =>
        LET u == last.req.username
        IN IF u \in {"Jerry", "Joey", "Phil"}
           THEN /\ last.status = 200
                /\ \E i \in 1..Len(last.body.message) : last.body.message[i] = u
           ELSE /\ last.status = 404
                /\ last.body = [detail |-> "User Not Found"]

\* the last of the three names has been found
C7_Witness ==
    /\ app = "search"
    /\ last.op = "search" /\ last.req.username = "Phil" /\ last.status = 200

\* C8: two threads that both scanned the list before either appended hold
\* the same new_id, the later append goes through although the id is taken,
\* and once both have appended two books carry the same id.
C8_RaceDuplicatesId ==
    \A t, u \in Threads :
        (t # u /\ pc[t] # "idle" /\ pc[u] # "idle" /\ scanned[t] = scanned[u]) =>
            /\ new_id[t] = new_id[u]
            /\ pc[u] = "appended" => HasId(books, new_id[t])
            /\ (pc[t] = "appended" /\ pc[u] = "appended") =>
                 \E i, j \in 1..Len(books) :
                    /\ i # j
                    /\ books[i]["id"] = new_id[t]
                    /\ books[j]["id"] = new_id[u]

\* two threads raced and the list holds two books with the same id
C8_Witness ==
    /\ ~UniqueIds(books)
    /\ \E t, u \in Threads :
          /\ t # u /\ scanned[t] = scanned[u]
          /\ pc[t] = "appended" /\ pc[u] = "appended"

\* C9: a get, update or delete that fails with 404 leaves the collection as
\* it was: same records, same field values, same order.
C9_NotFoundChangesNothing ==
    [][(last'.op \in {"get", "update", "delete"} /\ last'.status = 404) =>
          (books' = books /\ table' = table)]_vars

\* an update has just failed on an id that is not among several books
C9_Witness ==
    /\ app = "memory" /\ Len(books) >= 2
    /\ last.op = "update" /\ last.status = 404 /\ ~HasId(books, last.arg)

\* C10: a successful update on id k keeps the number and order of records and
\* every other record; a successful delete removes exactly the record with
\* id k and keeps the others unchanged and in order.
C10_FrameEffect ==
    [][/\ (MemStep("update") /\ last'.status = 200) =>
            /\ Len(books') = Len(books)
            /\ \A i \in 1..Len(books) :
                  books[i]["id"] # last'.arg => books'[i] = books[i]
       /\ (MemStep("delete") /\ last'.status = 204) =>
            \E i \in 1..Len(books) :
               /\ books[i]["id"] = last'.arg
               /\ Len(books') = Len(books) - 1
               /\ \A j \in 1..Len(books') :
                     books'[j] = IF j < i THEN books[j] ELSE books[j + 1]
      ]_vars

\* the middle one of three books has just been deleted
C10_Witness ==
    /\ app = "memory"
    /\ last.op = "delete" /\ last.status = 204
    /\ Len(books) = 2
    /\ books[1]["id"] < last.arg /\ last.arg < books[2]["id"]

====
